---------------------------- MODULE Spec2Model ----------------------------
(***************************************************************************)
(* Model of read_pressure_sensor.c: ConvertADCReadingToPressure (range     *)
(* check, binary search with exact-match short circuit, interpolation,     *)
(* least-squares extrapolation) driven by the read/convert/print loop of   *)
(* main.                                                                   *)
(***************************************************************************)
EXTENDS Integers, Sequences, FiniteSets, TLC

VARIABLES
    pc,                 \* position of main: "scanf", "while", "loop", "return", "exit", "error"
    adcReading,         \* main's adcReading, passed by value to the function
    pressure,           \* int32_t pressure
    searchWindowStart,  \* int16_t
    searchWindowEnd,    \* int16_t
    midPoint,           \* int16_t
    readingFound,       \* int16_t
    iterations,         \* executions of the while body during the current call
    firstResult         \* what each reading returned the first time it was converted

vars == <<pc, adcReading, pressure, searchWindowStart, searchWindowEnd,
          midPoint, readingFound, iterations, firstResult>>

(***************************************************************************)
(* The calibration table, { pressure * 100, adc }.                         *)
(***************************************************************************)
E(p, a) == [pressure |-> p, adc |-> a]

pressureTable ==
    << E(10000, 1696),  E(11000, 1909),  E(12000, 2118),  E(13000, 2272),
       E(14000, 2366),  E(15000, 2448),  E(16000, 2570),  E(17000, 2745),
       E(18000, 2931),  E(19000, 3073),  E(20000, 3151),  E(21000, 3200),
       E(22000, 3278),  E(23000, 3411),  E(24000, 3573),  E(25000, 3706),
       E(26000, 3777),  E(27000, 3808),  E(28000, 3853),  E(29000, 3955),
       E(30000, 4100),  E(31000, 4236),  E(32000, 4316),  E(33000, 4348),
       E(34000, 4382),  E(35000, 4468),  E(36000, 4610),  E(37000, 4762),
       E(38000, 4871),  E(39000, 4927),  E(40000, 4971),  E(41000, 5058),
       E(42000, 5210),  E(43000, 5390),  E(44000, 5541),  E(45000, 5639),
       E(46000, 5710),  E(47000, 5812),  E(48000, 5979),  E(49000, 6190),
       E(50000, 6389),  E(51000, 6534),  E(52000, 6641),  E(53000, 6762),
       E(54000, 6943),  E(55000, 7177),  E(56000, 7414),  E(57000, 7604),
       E(58000, 7743),  E(59000, 7877),  E(60000, 8060),  E(61000, 8302),
       E(62000, 8560),  E(63000, 8778),  E(64000, 8938),  E(65000, 9074),
       E(66000, 9243),  E(67000, 9470),  E(68000, 9726),  E(69000, 9954),
       E(70000, 10119), E(71000, 10244), E(72000, 10383), E(73000, 10577),
       E(74000, 10810), E(75000, 11028), E(76000, 11187), E(77000, 11292),
       E(78000, 11394), E(79000, 11542), E(80000, 11739), E(81000, 11937),
       E(82000, 12085), E(83000, 12170), E(84000, 12237), E(85000, 12340),
       E(86000, 12498), E(87000, 12675), E(88000, 12815), E(89000, 12893),
       E(90000, 12938), E(91000, 13007), E(92000, 13135), E(93000, 13299),
       E(94000, 13444), E(95000, 13531), E(96000, 13575), E(97000, 13631),
       E(98000, 13744), E(99000, 13908), E(100000, 14073) >>

FIXED_POINT_ARITH == 100

\* sizeof(pressureTable) / sizeof(pressureTable[0])
NumEntries == Len(pressureTable)

\* TABLE_SIZE where the macro's text stands alone or is the whole of an index,
\* an initialiser or the right side of a comparison: (sizeof / sizeof) - 1.
TABLE_SIZE == NumEntries - 1

\* pressureTablePtr[i], i counted from 0 as in C.
TableAdc(i) == pressureTable[i + 1].adc
TablePressure(i) == pressureTable[i + 1].pressure

(***************************************************************************)
(* int64_t arithmetic.  The sums of the extrapolation exceed 32 bits, so   *)
(* a 64-bit value is a sign and a magnitude, the magnitude a sequence of   *)
(* limbs, least significant first, without leading zero limbs.  No value   *)
(* the code computes from the table reaches 2^63.                          *)
(***************************************************************************)
Limb == 2^15

RECURSIVE NatOfInt(_)
NatOfInt(n) == IF n = 0 THEN <<>> ELSE <<n % Limb>> \o NatOfInt(n \div Limb)

RECURSIVE NatNorm(_)
NatNorm(d) ==
    IF d = <<>> THEN <<>>
    ELSE IF d[Len(d)] = 0 THEN NatNorm(SubSeq(d, 1, Len(d) - 1)) ELSE d

NatDigit(d, i) == IF i <= Len(d) THEN d[i] ELSE 0

RECURSIVE NatAddFrom(_, _, _, _)
NatAddFrom(a, b, i, c) ==
    IF i > Len(a) /\ i > Len(b)
    THEN IF c = 0 THEN <<>> ELSE <<c>>
    ELSE <<(NatDigit(a, i) + NatDigit(b, i) + c) % Limb>>
         \o NatAddFrom(a, b, i + 1, (NatDigit(a, i) + NatDigit(b, i) + c) \div Limb)

NatAdd(a, b) == NatAddFrom(a, b, 1, 0)

RECURSIVE NatLeqFrom(_, _, _)
NatLeqFrom(a, b, i) ==
    IF i = 0 THEN TRUE
    ELSE IF a[i] # b[i] THEN a[i] < b[i] ELSE NatLeqFrom(a, b, i - 1)

NatLeq(a, b) == IF Len(a) # Len(b) THEN Len(a) < Len(b) ELSE NatLeqFrom(a, b, Len(a))

\* a - b for a >= b
RECURSIVE NatSubFrom(_, _, _, _)
NatSubFrom(a, b, i, c) ==
    IF i > Len(a) THEN <<>>
    ELSE IF a[i] - NatDigit(b, i) - c < 0
         THEN <<a[i] - NatDigit(b, i) - c + Limb>> \o NatSubFrom(a, b, i + 1, 1)
         ELSE <<a[i] - NatDigit(b, i) - c>> \o NatSubFrom(a, b, i + 1, 0)

NatSub(a, b) == NatNorm(NatSubFrom(a, b, 1, 0))

RECURSIVE NatMulLimbFrom(_, _, _, _)
NatMulLimbFrom(a, m, i, c) ==
    IF i > Len(a)
    THEN IF c = 0 THEN <<>> ELSE <<c>>
    ELSE <<(a[i] * m + c) % Limb>> \o NatMulLimbFrom(a, m, i + 1, (a[i] * m + c) \div Limb)

RECURSIVE NatMul(_, _)
NatMul(a, b) ==
    IF a = <<>> \/ b = <<>> THEN <<>>
    ELSE NatAdd(NatNorm(NatMulLimbFrom(a, b[1], 1, 0)),
                IF Len(b) = 1 THEN <<>> ELSE <<0>> \o NatMul(a, Tail(b)))

\* Quotient and remainder of n by d > 0, by doubling the divisor.
NatDivStep(h, d) ==
    IF NatLeq(d, h.r)
    THEN [q |-> NatAdd(NatAdd(h.q, h.q), <<1>>), r |-> NatSub(h.r, d)]
    ELSE [q |-> NatAdd(h.q, h.q), r |-> h.r]

RECURSIVE NatDivMod(_, _)
NatDivMod(n, d) ==
    IF ~NatLeq(d, n) THEN [q |-> <<>>, r |-> n]
    ELSE NatDivStep(NatDivMod(n, NatAdd(d, d)), d)

I64Make(neg, mag) == [neg |-> neg /\ mag # <<>>, mag |-> mag]

\* The magnitude of an int n <= 0, without negating n itself (-(-2^31) is no int).
RECURSIVE NatOfNegInt(_)
NatOfNegInt(n) ==
    IF n = 0 THEN <<>>
    ELSE <<(Limb - (n % Limb)) % Limb>>
         \o NatOfNegInt((n + ((Limb - (n % Limb)) % Limb)) \div Limb)

\* The int64_t with the value of the int n.
I64(n) == IF n < 0 THEN I64Make(TRUE, NatOfNegInt(n)) ELSE I64Make(FALSE, NatOfInt(n))

I64Neg(x) == I64Make(~x.neg, x.mag)

I64Add(x, y) ==
    IF x.neg = y.neg THEN I64Make(x.neg, NatAdd(x.mag, y.mag))
    ELSE IF NatLeq(y.mag, x.mag) THEN I64Make(x.neg, NatSub(x.mag, y.mag))
    ELSE I64Make(y.neg, NatSub(y.mag, x.mag))

I64Sub(x, y) == I64Add(x, I64Neg(y))

I64Mul(x, y) == I64Make(x.neg # y.neg, NatMul(x.mag, y.mag))

\* C's division: the quotient truncated toward zero.
I64Div(x, y) == I64Make(x.neg # y.neg, NatDivMod(x.mag, y.mag).q)

I64Leq(x, y) ==
    IF x.neg # y.neg THEN x.neg
    ELSE IF x.neg THEN NatLeq(y.mag, x.mag) ELSE NatLeq(x.mag, y.mag)

Two31 == NatMul(NatOfInt(2^16), NatOfInt(2^15))
Two32 == NatMul(NatOfInt(2^16), NatOfInt(2^16))

\* A magnitude below 2^31 as an integer, and one up to 2^31 negated.
RECURSIVE NatToInt(_)
NatToInt(d) == IF d = <<>> THEN 0 ELSE d[1] + Limb * NatToInt(Tail(d))

RECURSIVE NatToNegInt(_)
NatToNegInt(d) == IF d = <<>> THEN 0 ELSE Limb * NatToNegInt(Tail(d)) - d[1]

\* Whether a 64-bit value is one an int32_t can hold.
FitsInt32(x) == IF x.neg THEN NatLeq(x.mag, Two31) ELSE ~NatLeq(Two31, x.mag)

\* The low 32 bits of a 64-bit value, as an unsigned magnitude.
Low32(x) ==
    IF x.neg /\ NatDivMod(x.mag, Two32).r # <<>>
    THEN NatSub(Two32, NatDivMod(x.mag, Two32).r)
    ELSE NatDivMod(x.mag, Two32).r

\* The assignment of an int64_t to the int32_t pressure: the value modulo 2^32,
\* read as two's complement.
ToInt32(x) ==
    IF NatLeq(Two31, Low32(x))
    THEN NatToNegInt(NatSub(Two32, Low32(x)))
    ELSE NatToInt(Low32(x))

\* C's int division, truncating toward zero.
CDiv(a, b) ==
    IF (a < 0) = (b < 0)
    THEN (IF a < 0 THEN -a ELSE a) \div (IF b < 0 THEN -b ELSE b)
    ELSE -((IF a < 0 THEN -a ELSE a) \div (IF b < 0 THEN -b ELSE b))

(***************************************************************************)
(* The out-of-range path: the least-squares line through the table.        *)
(***************************************************************************)
\* One pass of the for loop: its body for index l.i, then i++.  Each term is
\* int arithmetic, each sum int64_t.
Accumulate(l) ==
    [i |-> l.i + 1,
     sumOfADC_iTimesP_i |->
         I64Add(l.sumOfADC_iTimesP_i,
                I64(TableAdc(l.i) * CDiv(TablePressure(l.i), FIXED_POINT_ARITH))),
     sumOfADC_i |-> I64Add(l.sumOfADC_i, I64(TableAdc(l.i))),
     sumOfP_i |-> I64Add(l.sumOfP_i, I64(CDiv(TablePressure(l.i), FIXED_POINT_ARITH))),
     sumOfADC_iSquared |->
         I64Add(l.sumOfADC_iSquared, I64(TableAdc(l.i) * TableAdc(l.i)))]

\* for (int16_t i = 0; i <= TABLE_SIZE; i++): the loop from state l to its end
RECURSIVE ForLoop(_)
ForLoop(l) == IF l.i <= TABLE_SIZE THEN ForLoop(Accumulate(l)) ELSE l

Sums ==
    ForLoop([i |-> 0, sumOfADC_iTimesP_i |-> I64(0), sumOfADC_i |-> I64(0),
             sumOfP_i |-> I64(0), sumOfADC_iSquared |-> I64(0)])

\* sum / N, the per-point mean
MeanOverEntries(sum) == I64Div(sum, I64(NumEntries))

\* "sum / TABLE_SIZE": the macro's text is (sizeof / sizeof) - 1 without outer
\* parentheses, so the statement divides by the number of entries and then
\* subtracts 1.  (The operands are converted to size_t; every sum is positive
\* and at least the number of entries, so the unsigned result is the same.)
DivTableSize(sum) == I64Sub(I64Div(sum, I64(NumEntries)), I64(1))

SlopeOf(m) ==
    I64Div(I64Mul(I64Sub(m.sumOfADC_iTimesP_i, I64Mul(m.sumOfADC_i, m.sumOfP_i)),
                  I64(FIXED_POINT_ARITH)),
           I64Sub(m.sumOfADC_iSquared, I64Mul(m.sumOfADC_i, m.sumOfADC_i)))

InterceptOf(m) ==
    I64Div(I64Mul(I64Sub(I64Mul(m.sumOfADC_iSquared, m.sumOfP_i),
                         I64Mul(m.sumOfADC_i, m.sumOfADC_iTimesP_i)),
                  I64(FIXED_POINT_ARITH)),
           I64Sub(m.sumOfADC_iSquared, I64Mul(m.sumOfADC_i, m.sumOfADC_i)))

\* The accumulators after lines 235-238 have overwritten them.
SumsDivided ==
    [sumOfADC_iTimesP_i |-> DivTableSize(Sums.sumOfADC_iTimesP_i),
     sumOfADC_i         |-> DivTableSize(Sums.sumOfADC_i),
     sumOfP_i           |-> DivTableSize(Sums.sumOfP_i),
     sumOfADC_iSquared  |-> DivTableSize(Sums.sumOfADC_iSquared)]

slope == SlopeOf(SumsDivided)
intercept == InterceptOf(SumsDivided)

\* slope * adcReading + intercept, the int64_t value of the right-hand side
LineValue(adc) == I64Add(I64Mul(slope, I64(adc)), intercept)

\* pressure = slope * adcReading + intercept;
Extrapolate(adc) == ToInt32(LineValue(adc))

(***************************************************************************)
(* The in-range path: short circuit, binary search, interpolation.  The    *)
(* int16_t locals hold indices 0 .. TABLE_SIZE only, far below 2^15.       *)
(***************************************************************************)
\* A range check that forgets the upper end of the table.
InRangeNoUpperEnd(adc) == adc >= TableAdc(0)

\* (adcReading >= pressureTablePtr[0].adc) && (adcReading <= pressureTablePtr[TABLE_SIZE].adc)
InRange(adc) == adc >= TableAdc(0) /\ adc <= TableAdc(TABLE_SIZE)

\* A midpoint rounded up, and one that splits the window at its first quarter.
MidPointRoundedUp(start, end) == start + CDiv(end - start + 1, 2)
MidPointAtQuarter(start, end) == start + CDiv(end - start, 4)

\* searchWindowStart + (searchWindowEnd - searchWindowStart) / 2
MidPointOf(start, end) == start + CDiv(end - start, 2)

\* An interpolation that multiplies before it divides, and one whose slope is
\* rounded up.
InterpolateMultiplyFirst(P1, P2, ADC1, ADC2, adc) ==
    P1 + CDiv((P2 - P1) * (adc - ADC1), ADC2 - ADC1)
InterpolateSlopeRoundedUp(P1, P2, ADC1, ADC2, adc) ==
    P1 + (CDiv(P2 - P1, ADC2 - ADC1) + 1) * (adc - ADC1)

\* P1 + ((P2 - P1) / (ADC2 - ADC1)) * (adcReading - ADC1), in int arithmetic
Interpolate(P1, P2, ADC1, ADC2, adc) == P1 + CDiv(P2 - P1, ADC2 - ADC1) * (adc - ADC1)

\* A table hit that reads the entry's other field.
PressureAtOtherField(index) == TableAdc(index)

\* The value a table hit assigns to pressure.
PressureAt(index) == TablePressure(index)

\* A searchWindowStart that keeps the last call's value (a static local).
WindowStartKept == searchWindowStart

\* int16_t searchWindowStart = 0;
WindowStartAtEntry == 0

\* The locals as the function reaches the while loop's first test, or its
\* return when there is no search.  Outside the in-range block the search
\* locals do not exist; the model holds them at 0 there.
FrameAtEntry(adc) ==
    IF InRange(adc)
    THEN IF adc = TableAdc(0)
         THEN [searchWindowStart |-> WindowStartAtEntry, searchWindowEnd |-> TABLE_SIZE,
               midPoint |-> MidPointOf(WindowStartAtEntry, TABLE_SIZE),
               readingFound |-> 1, pressure |-> PressureAt(0)]
         ELSE IF adc = TableAdc(TABLE_SIZE)
         THEN [searchWindowStart |-> WindowStartAtEntry, searchWindowEnd |-> TABLE_SIZE,
               midPoint |-> MidPointOf(WindowStartAtEntry, TABLE_SIZE),
               readingFound |-> 1, pressure |-> PressureAt(TABLE_SIZE)]
         ELSE [searchWindowStart |-> WindowStartAtEntry, searchWindowEnd |-> TABLE_SIZE,
               midPoint |-> MidPointOf(WindowStartAtEntry, TABLE_SIZE),
               readingFound |-> 0, pressure |-> 0]
    ELSE [searchWindowStart |-> 0, searchWindowEnd |-> 0, midPoint |-> 0,
          readingFound |-> 0, pressure |-> Extrapolate(adc)]

\* One execution of the while loop's body.
BodyStep(adc, f) ==
    IF adc = TableAdc(f.midPoint)
    THEN [f EXCEPT !.readingFound = 1, !.pressure = PressureAt(f.midPoint)]
    ELSE IF f.midPoint = f.searchWindowStart
    THEN [f EXCEPT !.readingFound = 1,
                   !.pressure = Interpolate(TablePressure(f.searchWindowStart),
                                            TablePressure(f.searchWindowEnd),
                                            TableAdc(f.searchWindowStart),
                                            TableAdc(f.searchWindowEnd), adc)]
    ELSE IF adc < TableAdc(f.midPoint)
    THEN [f EXCEPT !.searchWindowEnd = f.midPoint,
                   !.midPoint = MidPointOf(f.searchWindowStart, f.midPoint)]
    ELSE IF adc > TableAdc(f.midPoint)
    THEN [f EXCEPT !.searchWindowStart = f.midPoint,
                   !.midPoint = MidPointOf(f.midPoint, f.searchWindowEnd)]
    ELSE f

\* while (readingFound == 0) { ... }
RECURSIVE WhileLoop(_, _)
WhileLoop(adc, f) == IF f.readingFound = 0 THEN WhileLoop(adc, BodyStep(adc, f)) ELSE f

\* The function as a whole: the value it returns for adcReading.
ConvertADCReadingToPressure(adc) ==
    IF InRange(adc) THEN WhileLoop(adc, FrameAtEntry(adc)).pressure
    ELSE FrameAtEntry(adc).pressure

\* The in-range readings' results, each computed once.
InRangeResult == [a \in TableAdc(0) .. TableAdc(TABLE_SIZE) |-> ConvertADCReadingToPressure(a)]

(***************************************************************************)
(* main: read a reading, convert it, print, read the next; a negative      *)
(* reading ends the loop, a failed scanf ends the program.                 *)
(***************************************************************************)
\* The largest reading of the exhaustive input range (the 16-bit ADC's range).
MaxReading == 65535

\* Readings beyond it: around the first one whose line value leaves int32_t,
\* and the largest int.
LargeReadings == {357913677, 357913678, 400000000, 2147483647}

\* What the operator may type: any reading of the range, a large one, or the
\* negative number that ends the loop.
Inputs == (0 .. MaxReading) \cup LargeReadings \cup {-1}

\* The readings of the runs that record each reading's first result.
HistoryInputs == {1696, 14073, 1800, 2118, 9000, 13999, 1000, 20000, -1}

Frame ==
    [searchWindowStart |-> searchWindowStart, searchWindowEnd |-> searchWindowEnd,
     midPoint |-> midPoint, readingFound |-> readingFound, pressure |-> pressure]

SetFrame(f) ==
    /\ searchWindowStart' = f.searchWindowStart
    /\ searchWindowEnd' = f.searchWindowEnd
    /\ midPoint' = f.midPoint
    /\ readingFound' = f.readingFound
    /\ pressure' = f.pressure

Init ==
    /\ pc = "scanf"
    /\ adcReading = 0
    /\ pressure = 0
    /\ searchWindowStart = 0
    /\ searchWindowEnd = 0
    /\ midPoint = 0
    /\ readingFound = 0
    /\ iterations = 0
    /\ firstResult = [r \in {} |-> 0]

\* res = scanf("%d", &adcReading) with res == 1
Scanf(from) ==
    /\ pc = "scanf"
    /\ \E v \in from : adcReading' = v
    /\ pc' = "while"
    /\ UNCHANGED <<pressure, searchWindowStart, searchWindowEnd, midPoint,
                   readingFound, iterations, firstResult>>

\* res != 1: "Error occured with scanf operation.", return -1
ScanfFails ==
    /\ pc = "scanf"
    /\ pc' = "error"
    /\ UNCHANGED <<adcReading, pressure, searchWindowStart, searchWindowEnd, midPoint,
                   readingFound, iterations, firstResult>>

\* while (adcReading >= 0) fails: return 0
Exit ==
    /\ pc = "while"
    /\ adcReading < 0
    /\ pc' = "exit"
    /\ UNCHANGED <<adcReading, pressure, searchWindowStart, searchWindowEnd, midPoint,
                   readingFound, iterations, firstResult>>

\* The call: from the function's entry to the while loop's first test, or to
\* the return on the short circuits and on the out-of-range path.
Call ==
    /\ pc = "while"
    /\ adcReading >= 0
    /\ SetFrame(FrameAtEntry(adcReading))
    /\ iterations' = 0
    /\ pc' = IF InRange(adcReading) /\ FrameAtEntry(adcReading).readingFound = 0
             THEN "loop" ELSE "return"
    /\ UNCHANGED <<adcReading, firstResult>>

\* One execution of the while body, and the loop's next test.
LoopBody ==
    /\ pc = "loop"
    /\ SetFrame(BodyStep(adcReading, Frame))
    /\ iterations' = iterations + 1
    /\ pc' = IF BodyStep(adcReading, Frame).readingFound = 0 THEN "loop" ELSE "return"
    /\ UNCHANGED <<adcReading, firstResult>>

\* return pressure; main prints the reading and the result and goes to read
\* again.  From here on the function's locals are dead, and so is main's
\* adcReading, which the next scanf overwrites (or the program ends).  Without
\* history the dead variables are put back to 0, so that main's states do not
\* differ by a finished call's leftovers; with history they keep their last
\* values, as the memory does, and the run notes the result a reading gave the
\* first time.
Printf(history) ==
    /\ pc = "return"
    /\ pc' = "scanf"
    /\ IF history
       THEN /\ firstResult' =
                   IF adcReading \in DOMAIN firstResult
                   THEN firstResult
                   ELSE firstResult @@ (adcReading :> pressure)
            /\ UNCHANGED <<adcReading, pressure, searchWindowStart, searchWindowEnd,
                           midPoint, readingFound, iterations>>
       ELSE /\ adcReading' = 0
            /\ pressure' = 0
            /\ searchWindowStart' = 0
            /\ searchWindowEnd' = 0
            /\ midPoint' = 0
            /\ readingFound' = 0
            /\ iterations' = 0
            /\ UNCHANGED firstResult

Next ==
    \/ Scanf(Inputs)
    \/ ScanfFails
    \/ Exit
    \/ Call
    \/ LoopBody
    \/ Printf(FALSE)

Spec == Init /\ [][Next]_vars

HistoryNext ==
    \/ Scanf(HistoryInputs)
    \/ ScanfFails
    \/ Exit
    \/ Call
    \/ LoopBody
    \/ Printf(TRUE)

HistorySpec == Init /\ [][HistoryNext]_vars

(***************************************************************************)
(* Properties.                                                             *)
(***************************************************************************)
Returned == pc = "return"
Searched == Returned /\ iterations >= 1

\* C1: a reading equal to the ADC value of table entry i returns exactly that
\* entry's pressure, whether the first/last short circuit or the binary search
\* reaches it.
ExactMatchReturnsEntry ==
    Returned =>
        \A i \in 0 .. TABLE_SIZE :
            adcReading = TableAdc(i) => pressure = TablePressure(i)

ExactMatchBySearch ==
    /\ Searched
    /\ adcReading = 2118
    /\ pressure = 12000

\* C2: a reading strictly between adjacent entries k and k+1 ends the search
\* with the window [k, k+1] and returns P1 + ((P2-P1) / (ADC2-ADC1)) * (adc-ADC1),
\* the division truncating and done before the multiplication.
InterpolationFormula ==
    Returned =>
        \A k \in 0 .. TABLE_SIZE - 1 :
            (TableAdc(k) < adcReading /\ adcReading < TableAdc(k + 1)) =>
                /\ searchWindowStart = k
                /\ searchWindowEnd = k + 1
                /\ pressure = TablePressure(k)
                              + ((TablePressure(k + 1) - TablePressure(k))
                                 \div (TableAdc(k + 1) - TableAdc(k)))
                                * (adcReading - TableAdc(k))

Interpolated1800 ==
    /\ Searched
    /\ adcReading = 1800
    /\ searchWindowStart = 0 /\ searchWindowEnd = 1
    /\ pressure = 10000 + (1000 \div 213) * 104

\* The least-squares line with each mean the accumulator divided by the number
\* of table entries.
MeansOverEntries ==
    [sumOfADC_iTimesP_i |-> MeanOverEntries(Sums.sumOfADC_iTimesP_i),
     sumOfADC_i         |-> MeanOverEntries(Sums.sumOfADC_i),
     sumOfP_i           |-> MeanOverEntries(Sums.sumOfP_i),
     sumOfADC_iSquared  |-> MeanOverEntries(Sums.sumOfADC_iSquared)]

LineOverEntries(adc) ==
    I64Add(I64Mul(SlopeOf(MeansOverEntries), I64(adc)), InterceptOf(MeansOverEntries))

\* C3: an out-of-range reading returns slope * adcReading + intercept, slope and
\* intercept computed from the four sums each divided by N, the number of table
\* entries.
ExtrapolationUsesMeansOverN ==
    (Returned /\ ~InRange(adcReading)) =>
        I64(pressure) = LineOverEntries(adcReading)

\* The in-range readings next to a table entry: each entry's own reading and the
\* one just before it, whose value is interpolated with a truncated slope.
Anchors ==
    {TableAdc(i) : i \in 0 .. TABLE_SIZE} \cup {TableAdc(i) - 1 : i \in 1 .. TABLE_SIZE}

\* C4: in range the conversion is non-decreasing.  The reading just converted
\* returns at least what the reading one below it returns, which over the whole
\* range is the claim for every pair a <= b, <= being transitive; and it returns
\* at least what every anchor at or below it returns, the pairs that cross
\* segment boundaries.
MonotonicInRange ==
    (Returned /\ InRange(adcReading)) =>
        /\ adcReading > TableAdc(0) => InRangeResult[adcReading - 1] <= pressure
        /\ \A a \in Anchors : a <= adcReading => InRangeResult[a] <= pressure

ExactAfterInterpolated ==
    /\ Searched
    /\ adcReading = TableAdc(1)
    /\ InRangeResult[adcReading - 1] < pressure
    /\ InRangeResult[adcReading - 1] > TablePressure(0)

UINT16_MAX == 2^16 - 1

\* C5 as stated: every 16-bit reading below the table returns less than the
\* first entry's pressure, every one above the table more than the last entry's.
ExtrapolationOnCorrectSide ==
    (Returned /\ adcReading <= UINT16_MAX) =>
        /\ adcReading < TableAdc(0) => pressure < TablePressure(0)
        /\ adcReading > TableAdc(TABLE_SIZE) => pressure > TablePressure(TABLE_SIZE)

\* C5, amended: a 16-bit reading below the table returns less than the first
\* entry's pressure exactly when it is at most 1403, and one above the table
\* returns more than the last entry's pressure exactly when it is at least 16404.
ExtrapolationSideByThreshold ==
    (Returned /\ adcReading <= UINT16_MAX) =>
        /\ adcReading < TableAdc(0) =>
               (pressure < TablePressure(0) <=> adcReading <= 1403)
        /\ adcReading > TableAdc(TABLE_SIZE) =>
               (pressure > TablePressure(TABLE_SIZE) <=> adcReading >= 16404)

ExtrapolatedAbove20000 ==
    /\ Returned
    /\ adcReading = 20000
    /\ pressure > TablePressure(TABLE_SIZE)

\* C6: the search of an in-range reading ends within 8 executions of the loop
\* body, the last one included, and every execution that is not the last
\* strictly narrows the window.
SearchEndsWithin8 ==
    [][pc = "loop" =>
          /\ iterations' <= 8
          /\ \/ pc' = "return" /\ readingFound' = 1
             \/ /\ pc' = "loop" /\ readingFound' = 0
                /\ searchWindowEnd' - searchWindowStart'
                       < searchWindowEnd - searchWindowStart]_vars

EighthExecutionEnds ==
    /\ Returned
    /\ readingFound = 1
    /\ iterations = 8

CeilLog2(n) == CHOOSE k \in 0 .. 30 : 2^k >= n /\ (k = 0 \/ 2^(k - 1) < n)

\* C7 as stated: the loop body runs at most ceil(log2(N)) times.
IterationsWithinCeilLog2 ==
    pc \in {"loop", "return"} => iterations <= CeilLog2(NumEntries)

\* C7, amended: the loop body runs at most ceil(log2(N)) + 1 times.
IterationsWithinCeilLog2PlusOne ==
    pc \in {"loop", "return"} => iterations <= CeilLog2(NumEntries) + 1

OneMoreThanCeilLog2 ==
    /\ Searched
    /\ adcReading = 13999
    /\ searchWindowStart = TABLE_SIZE - 1 /\ searchWindowEnd = TABLE_SIZE
    /\ iterations = CeilLog2(NumEntries) + 1

\* C8: whatever calls came before, a reading returns what it returned the first
\* time it was converted.
SameResultAsFirstTime ==
    (Returned /\ adcReading \in DOMAIN firstResult) =>
        firstResult[adcReading] = pressure

ConvertedAgainAfterOthers ==
    /\ Searched
    /\ adcReading \in DOMAIN firstResult
    /\ \E r \in DOMAIN firstResult : ~InRange(r)
    /\ Cardinality(DOMAIN firstResult) >= 4
    /\ firstResult[adcReading] = pressure

\* C9: the 64-bit value slope * adcReading + intercept of an out-of-range
\* reading is the value returned: it fits the int32_t it is assigned to.
ExtrapolatedValueFitsInt32 ==
    (Returned /\ ~InRange(adcReading)) =>
        /\ FitsInt32(LineValue(adcReading))
        /\ I64(pressure) = LineValue(adcReading)

\* C10: when the loop body starts, 0 <= start <= mid < end <= N-1, mid is the
\* window's midpoint, and the window's ends strictly bracket the reading.
BracketingInvariant ==
    pc = "loop" =>
        /\ 0 <= searchWindowStart
        /\ searchWindowStart <= midPoint
        /\ midPoint < searchWindowEnd
        /\ searchWindowEnd <= NumEntries - 1
        /\ midPoint = searchWindowStart + (searchWindowEnd - searchWindowStart) \div 2
        /\ TableAdc(searchWindowStart) < adcReading
        /\ adcReading < TableAdc(searchWindowEnd)
        /\ TableAdc(searchWindowEnd) - TableAdc(searchWindowStart) # 0

NarrowedToAdjacent ==
    /\ pc = "loop"
    /\ iterations = 7
    /\ searchWindowEnd = searchWindowStart + 1
    /\ midPoint = searchWindowStart

=============================================================================
